---- MODULE Spec2Model ----
(***************************************************************************)
(* ByteStreamer of Thunder/utils/custom_dl.py as a state machine.          *)
(*                                                                         *)
(* The program runs on one asyncio event loop: a coroutine runs without    *)
(* interruption from one suspension to the next.  asyncio.Lock.acquire     *)
(* does not suspend when the lock is free, and no block guarded by         *)
(* cache_lock contains an await, so the lock is free at every suspension   *)
(* and "async with self.cache_lock" never suspends.  The suspensions are   *)
(* the awaits on external collaborators: the decoder (get_file_ids), the   *)
(* storage accessors, Auth.create, Session.start/stop, the export/import   *)
(* exchange, the chunk fetch, asyncio.sleep, and the generator's yield.    *)
(* One action is the code between two suspensions.                         *)
(***************************************************************************)
EXTENDS Integers, Sequences, FiniteSets, TLC

(* ------------------------------ bounds -------------------------------- *)
\* concurrent get_file_properties calls
NumCallers == 3
\* message ids
NumIds == 2

\* largest part_count
MaxParts == 3
\* chunk_size of the small requests, in bytes
ChunkSz == 3

Callers == 1..NumCallers
MsgIds == 1..NumIds
\* the yield_file generators
Streams == {1, 2}

(* --------------------------- metadata cache --------------------------- *)
VARIABLES
    cached_file_ids,  \* self.cached_file_ids: a dict, message id -> FileId
    gfp_pc,           \* position of each get_file_properties call
    gfp_id,           \* its message_id argument
    gfp_ret,          \* the FileId it returned
    decoder_calls,    \* history: the calls that invoked get_file_ids
    decoder_answer,   \* history: what get_file_ids answered each call
    returned_since,   \* history: per id, the FileIds returned since the last clear
    after_clear,      \* history: per id, what the last clear left to happen
    pre_clear,        \* history: the calls that had returned when the last clear ran
    gfp_entry         \* history: the three above as the call found them on entry

cacheVars == <<cached_file_ids, gfp_pc, gfp_id, gfp_ret, decoder_calls,
               decoder_answer, returned_since, after_clear, pre_clear, gfp_entry>>

(* ----------------------- sessions and streams ------------------------ *)
VARIABLES
    media_sessions,   \* client.media_sessions: a dict, dc id -> Session
    sessions,         \* the Session object each call constructed, if any
    work_loads,       \* Thunder.bot.work_loads: client index -> streams in flight
    st_pc,            \* position of each yield_file generator
    st_args,          \* its arguments
    media_session,    \* yield_file / generate_media_session: media_session
    attempt,          \* generate_media_session: attempt
    current_part,     \* yield_file: current_part
    offset,           \* yield_file: offset
    location,         \* yield_file: location
    request,          \* the GetFile request in flight
    sleep_for,        \* the asyncio.sleep in progress, in seconds
    emitted,          \* the slices yielded to the consumer
    error,            \* the exception that ended the generator
    chunks,           \* history: the chunk received for each slice yielded
    load,             \* history: increments and decrements of work_loads by s
    answer,           \* history: the remote's latest answer to s
    auth              \* history: the exchanges and sleeps of the call of s

streamVars == <<media_sessions, sessions, work_loads, st_pc, st_args,
                media_session, attempt, current_part, offset, location, request,
                sleep_for, emitted, error, chunks, load, answer, auth>>

VARIABLES
    predecessors,     \* history: the generators that had ended when s first ran
    clear_seen        \* history: the generators in progress when a clear ran

historyVars == <<predecessors, clear_seen>>

\* The positions of a generator that has ended: exhausted or stopped early,
\* closed, cancelled, or left by an exception.
EndedPcs == {"done", "closed", "cancelled", "raised"}

\* Python's None where a FileId is expected.
NoFile == [message_id |-> 0, decode |-> 0]

\* The FileId that the decode invoked by call c builds for message id: every
\* decode builds a new object from the message as it is at that moment.
FileId(id, c) == [message_id |-> id, decode |-> c]

\* dict.get(key): the entry, or None.
MutDictGet(d, k) == NoFile
DictGet(d, k) == IF k \in DOMAIN d THEN d[k] ELSE NoFile

\* d[key] = value
MutDictSet(d, k, v) == IF k \in DOMAIN d THEN d ELSE [x \in (DOMAIN d) \cup {k} |-> v]
DictSet(d, k, v) == [x \in (DOMAIN d) \cup {k} |-> IF x = k THEN v ELSE d[x]]

\* dict.clear()
MutDictClear(d) == d
DictClear(d) == [x \in {} |-> NoFile]

NoEntry == [seen |-> <<>>, first |-> "none", returned |-> {}]

CacheInit ==
    /\ cached_file_ids = [x \in {} |-> NoFile]
    /\ gfp_pc = [c \in Callers |-> "idle"]
    /\ gfp_id = [c \in Callers |-> 0]
    /\ gfp_ret = [c \in Callers |-> NoFile]
    /\ decoder_calls = {}
    /\ decoder_answer = [c \in Callers |-> "none"]
    /\ returned_since = [i \in MsgIds |-> <<>>]
    /\ after_clear = [i \in MsgIds |-> "none"]
    /\ pre_clear = {}
    /\ gfp_entry = [c \in Callers |-> NoEntry]

\* What every entry into get_file_properties(id) records.
GfpEnter(c, id) ==
    /\ gfp_id' = [gfp_id EXCEPT ![c] = id]
    /\ gfp_entry' = [gfp_entry EXCEPT ![c] =
                        [seen |-> returned_since[id], first |-> after_clear[id],
                         returned |-> pre_clear]]
    /\ after_clear' = [after_clear EXCEPT ![id] = "none"]

\* get_file_properties, lines 54-58 and 65: the id is cached; return it.
GfpHit(c, id) ==
    /\ gfp_pc[c] = "idle"
    /\ DictGet(cached_file_ids, id) # NoFile
    /\ GfpEnter(c, id)
    /\ gfp_pc' = [gfp_pc EXCEPT ![c] = "returned"]
    /\ gfp_ret' = [gfp_ret EXCEPT ![c] = DictGet(cached_file_ids, id)]
    /\ returned_since' = [returned_since EXCEPT
                             ![id] = Append(@, DictGet(cached_file_ids, id))]
    /\ UNCHANGED <<cached_file_ids, decoder_calls, decoder_answer, pre_clear,
                   streamVars, historyVars>>

\* get_file_properties, lines 54-60, and generate_file_properties, lines
\* 80-81: the id is not cached; the decoder is invoked and the call waits.
GfpMiss(c, id) ==
    /\ gfp_pc[c] = "idle"
    /\ DictGet(cached_file_ids, id) = NoFile
    /\ GfpEnter(c, id)
    /\ gfp_pc' = [gfp_pc EXCEPT ![c] = "decoding"]
    /\ decoder_calls' = decoder_calls \cup {c}
    /\ UNCHANGED <<cached_file_ids, gfp_ret, decoder_answer, returned_since,
                   pre_clear,
                   streamVars, historyVars>>

\* generate_file_properties, lines 81-85: the decoder answers absent and
\* FileNotFound is raised.
MutDecodeAbsent(c) ==
    /\ gfp_pc[c] = "decoding"
    /\ gfp_pc' = [gfp_pc EXCEPT ![c] = "FileNotFound"]
    /\ decoder_answer' = [decoder_answer EXCEPT ![c] = "absent"]
    /\ cached_file_ids' = DictSet(cached_file_ids, gfp_id[c], NoFile)
    /\ UNCHANGED <<gfp_id, gfp_ret, decoder_calls, returned_since,
                   after_clear, pre_clear, gfp_entry,
                   streamVars, historyVars>>
DecodeAbsent(c) ==
    /\ gfp_pc[c] = "decoding"
    /\ gfp_pc' = [gfp_pc EXCEPT ![c] = "FileNotFound"]
    /\ decoder_answer' = [decoder_answer EXCEPT ![c] = "absent"]
    /\ UNCHANGED <<cached_file_ids, gfp_id, gfp_ret, decoder_calls,
                   returned_since, after_clear, pre_clear, gfp_entry,
                   streamVars, historyVars>>

\* generate_file_properties, lines 81-91, then get_file_properties, lines
\* 61-65: the decoder answers a FileId; it is stored (line 88), stored again
\* (line 62) and returned.
DecodeFound(c) ==
    /\ gfp_pc[c] = "decoding"
    /\ LET file_id == FileId(gfp_id[c], c)
           stored == DictSet(cached_file_ids, gfp_id[c], file_id)
       IN /\ cached_file_ids' = DictSet(stored, gfp_id[c], file_id)
          /\ gfp_ret' = [gfp_ret EXCEPT ![c] = file_id]
          /\ returned_since' = [returned_since EXCEPT
                                   ![gfp_id[c]] = Append(@, file_id)]
    /\ gfp_pc' = [gfp_pc EXCEPT ![c] = "returned"]
    /\ decoder_answer' = [decoder_answer EXCEPT ![c] = "found"]
    /\ UNCHANGED <<gfp_id, decoder_calls, after_clear, pre_clear, gfp_entry,
                   streamVars, historyVars>>

\* The ids with a call waiting for the decoder.
Decoding == {gfp_id[c] : c \in {x \in Callers : gfp_pc[x] = "decoding"}}

\* clean_cache, lines 302-306: the timer fires and the cache is cleared.
Mut_clean_cache ==
    /\ cached_file_ids' = DictClear(cached_file_ids)
    /\ media_sessions' = [d \in DOMAIN media_sessions |-> 0]
    /\ returned_since' = [i \in MsgIds |-> <<>>]
    /\ after_clear' = [i \in MsgIds |->
          IF i \in DOMAIN cached_file_ids \/ after_clear[i] # "none"
          THEN (IF i \in Decoding THEN "raced" ELSE "evicted")
          ELSE "none"]
    /\ pre_clear' = {c \in Callers : gfp_pc[c] = "returned"}
    /\ clear_seen' = clear_seen \cup
           {s \in Streams : st_pc[s] \notin {"none"} \cup EndedPcs}
    /\ UNCHANGED <<gfp_pc, gfp_id, gfp_ret, decoder_calls, decoder_answer,
                   gfp_entry, predecessors,
                   sessions, work_loads, st_pc, st_args, media_session, attempt,
                   current_part, offset, location, request, sleep_for, emitted,
                   error, chunks, load, answer, auth>>
clean_cache ==
    /\ cached_file_ids' = DictClear(cached_file_ids)
    /\ returned_since' = [i \in MsgIds |-> <<>>]
    /\ after_clear' = [i \in MsgIds |->
          IF i \in DOMAIN cached_file_ids \/ after_clear[i] # "none"
          THEN (IF i \in Decoding THEN "raced" ELSE "evicted")
          ELSE "none"]
    /\ pre_clear' = {c \in Callers : gfp_pc[c] = "returned"}
    /\ clear_seen' = clear_seen \cup
           {s \in Streams : st_pc[s] \notin {"none"} \cup EndedPcs}
    /\ UNCHANGED <<gfp_pc, gfp_id, gfp_ret, decoder_calls, decoder_answer,
                   gfp_entry,
                   streamVars, predecessors>>

(* ------------------- generate_media_session, yield_file ---------------- *)
DcIds == {1, 2}
\* client.storage.dc_id(): the home data centre
client_dc_id == 1
\* the client indices of work_loads
Indices == {0, 1}
\* FloodWait.value, in seconds
FloodWaits == {3, 5}
\* range(6), line 127
Attempts == 6
\* "if attempt == 5", line 141
LastAttempt == 5
\* asyncio.sleep(1), line 151
RpcSleep == 1

NoSession == [dc_id |-> 0, key |-> "none", state |-> "none", imported |-> FALSE]
NoArgs == [dc_id |-> 0, index |-> 0, offset |-> 0, first_part_cut |-> 0,
           last_part_cut |-> 0, part_count |-> 0, chunk_size |-> 0]
NoRequest == [offset |-> 0, limit |-> 0, session |-> 0, location |-> 0]
NoAnswer == [kind |-> "none", value |-> 0]
\* exchanges: the exchanges answered; only_abi: every failure so far was
\* AuthBytesInvalid; slept: the sleeps so far, kept while only_abi holds.
NoAuth == [exchanges |-> 0, only_abi |-> TRUE, slept |-> <<>>]

\* The requests of the single-stream specification: every cut of a small
\* chunk, one to MaxParts parts, both data centres, and the 1024-byte request.
BoundaryArgs == [dc_id |-> 1, index |-> 0, offset |-> 0, first_part_cut |-> 100,
                 last_part_cut |-> 900, part_count |-> 1, chunk_size |-> 1024]
RichArgs ==
    {[dc_id |-> d, index |-> 0, offset |-> o, first_part_cut |-> f,
      last_part_cut |-> l, part_count |-> n, chunk_size |-> ChunkSz] :
        d \in DcIds, o \in {0, 2 * ChunkSz}, f \in 0..ChunkSz, l \in 0..ChunkSz,
        n \in 1..MaxParts}
    \cup {BoundaryArgs}
\* The requests of two generators that differ in data centre and client index.
PairArgs ==
    {[dc_id |-> d, index |-> i, offset |-> 0, first_part_cut |-> 0,
      last_part_cut |-> ChunkSz, part_count |-> 1, chunk_size |-> ChunkSz] :
        d \in DcIds, i \in Indices}
\* The requests of the concurrent specification.
ConcArgs ==
    {[dc_id |-> d, index |-> i, offset |-> 0, first_part_cut |-> 1,
      last_part_cut |-> 2, part_count |-> 2, chunk_size |-> ChunkSz] :
        d \in DcIds, i \in Indices}

StreamInit ==
    /\ media_sessions = [d \in DcIds |-> 0]
    /\ sessions = [s \in Streams |-> NoSession]
    /\ work_loads = [i \in Indices |-> 0]
    /\ st_pc = [s \in Streams |-> "none"]
    /\ st_args = [s \in Streams |-> NoArgs]
    /\ media_session = [s \in Streams |-> 0]
    /\ attempt = [s \in Streams |-> 0]
    /\ current_part = [s \in Streams |-> 0]
    /\ offset = [s \in Streams |-> 0]
    /\ location = [s \in Streams |-> 0]
    /\ request = [s \in Streams |-> NoRequest]
    /\ sleep_for = [s \in Streams |-> 0]
    /\ emitted = [s \in Streams |-> <<>>]
    /\ error = [s \in Streams |-> "none"]
    /\ chunks = [s \in Streams |-> <<>>]
    /\ load = [s \in Streams |-> [inc |-> 0, dec |-> 0]]
    /\ answer = [s \in Streams |-> NoAnswer]
    /\ auth = [s \in Streams |-> NoAuth]
    /\ predecessors = [s \in Streams |-> {}]
    /\ clear_seen = {}

\* The bytes the remote file holds at off .. off+n-1.
Remote(off, n) == [i \in 1..n |-> (off + i - 1) % 256]
\* The lengths of a non-empty chunk sent for a request of cs bytes: all of it,
\* or less at the end of the file.
DataLens(cs) == {cs, (cs + 1) \div 2}
ChunkLens == UNION {DataLens(a.chunk_size) : a \in RichArgs \cup ConcArgs \cup PairArgs}

\* Python's seq[start:stop] for integers start and stop.
SliceIndex(i, n) == IF i < 0 THEN (IF i + n < 0 THEN 0 ELSE i + n)
                    ELSE (IF i > n THEN n ELSE i)
PySlice(seq, start, stop) ==
    LET lo == SliceIndex(start, Len(seq))
        hi == SliceIndex(stop, Len(seq))
    IN IF lo >= hi THEN <<>> ELSE SubSeq(seq, lo + 1, hi)
\* seq[start:] and seq[:stop]
PySliceFrom(seq, start) == PySlice(seq, start, Len(seq))
PySliceTo(seq, stop) == PySlice(seq, 0, stop)

\* yield_file, lines 273-280: the slice yielded for a chunk.
MutSliceOf(chunk, part, a) ==
    IF part = 1 THEN PySliceFrom(chunk, a.first_part_cut)
    ELSE IF part = a.part_count THEN PySliceTo(chunk, a.last_part_cut)
    ELSE chunk
SliceOf(chunk, part, a) ==
    IF a.part_count = 1 THEN PySlice(chunk, a.first_part_cut, a.last_part_cut)
    ELSE IF part = 1 THEN PySliceFrom(chunk, a.first_part_cut)
    ELSE IF part = a.part_count THEN PySliceTo(chunk, a.last_part_cut)
    ELSE chunk

\* get_location, lines 184-221: the locator of the file (a pure function of
\* the FileId; here of the data centre that identifies the file).
get_location(a) == a.dc_id

\* "2 ** attempt", line 145
MutBackoff(k) == 2 * k
Backoff(k) == 2 ^ k
\* "e.value + 1", lines 148 and 290
FloodSleep(w) == w + 1

\* The finally block, lines 294-296.
MutRelease(s) ==
    /\ work_loads' = [work_loads EXCEPT ![st_args[s].index] = @ - 2]
    /\ load' = [load EXCEPT ![s].dec = @ + 2]
Release(s) ==
    /\ work_loads' = [work_loads EXCEPT ![st_args[s].index] = @ - 1]
    /\ load' = [load EXCEPT ![s].dec = @ + 1]

\* media_session.send(GetFile(location, offset, limit)), lines 259-263.
GetFile(s, off) ==
    request' = [request EXCEPT ![s] =
                   [offset |-> off, limit |-> st_args[s].chunk_size,
                    session |-> media_session[s], location |-> location[s]]]

\* client.media_sessions[file_id.dc_id] = media_session, line 163.
MutStore(s) ==
    media_sessions' = IF media_sessions[st_args[s].dc_id] = 0
                      THEN [media_sessions EXCEPT ![st_args[s].dc_id] = media_session[s]]
                      ELSE media_sessions
Store(s) ==
    media_sessions' = [media_sessions EXCEPT ![st_args[s].dc_id] = media_session[s]]

\* The remote's answer, recorded.
Answer(s, kind, value) ==
    answer' = [answer EXCEPT ![s] = [kind |-> kind, value |-> value]]

\* What a failed exchange records: kind is the failure, slept the sleep that
\* follows it (<<>> when none does).
Failed(s, kind, slept) ==
    auth' = [auth EXCEPT ![s] =
                [exchanges |-> @.exchanges + 1,
                 only_abi |-> @.only_abi /\ kind = "AuthBytesInvalid",
                 slept |-> IF @.only_abi /\ kind = "AuthBytesInvalid"
                           THEN @.slept \o slept ELSE <<>>]]

\* yield_file(...) is called: the generator exists and has run no code.
Call(s, a) ==
    /\ st_pc[s] = "none"
    /\ st_pc' = [st_pc EXCEPT ![s] = "created"]
    /\ st_args' = [st_args EXCEPT ![s] = a]
    /\ offset' = [offset EXCEPT ![s] = a.offset]
    /\ UNCHANGED <<media_sessions, sessions, work_loads, media_session, attempt,
                   current_part, location, request, sleep_for, emitted, error,
                   chunks, load, answer, auth, cacheVars, historyVars>>

\* The consumer closes the generator before advancing it: no code runs.
CloseUnstarted(s) ==
    /\ st_pc[s] = "created"
    /\ st_pc' = [st_pc EXCEPT ![s] = "closed"]
    /\ UNCHANGED <<media_sessions, sessions, work_loads, st_args, media_session,
                   attempt, current_part, offset, location, request, sleep_for,
                   emitted, error, chunks, load, answer, auth, cacheVars, historyVars>>

\* yield_file, lines 248-252, and generate_media_session, lines 106-117,
\* 153-161 and 164-167: the first advance counts the stream and looks the
\* session up; a cached one is returned, else the storage is read (its
\* accessors do not suspend) and the key exchange (another data centre) or
\* the start of a session with the stored key (home data centre) begins.
MutBegin(s) ==
    /\ st_pc[s] = "created"
    /\ work_loads' = [work_loads EXCEPT ![st_args[s].index] = @ + 1]
    /\ load' = [load EXCEPT ![s].inc = @ + 1]
    /\ predecessors' = [predecessors EXCEPT
                           ![s] = {t \in Streams : st_pc[t] \in EndedPcs}]
    /\ IF st_args[s].dc_id # client_dc_id
       THEN /\ st_pc' = [st_pc EXCEPT ![s] = "auth_create"]
            /\ UNCHANGED <<sessions, media_session>>
       ELSE /\ st_pc' = [st_pc EXCEPT ![s] = "start"]
            /\ sessions' = [sessions EXCEPT ![s] =
                  [dc_id |-> st_args[s].dc_id, key |-> "stored",
                   state |-> "new", imported |-> FALSE]]
            /\ media_session' = [media_session EXCEPT ![s] = s]
    /\ UNCHANGED <<media_sessions, st_args, attempt, current_part,
                   offset, location, request, sleep_for, emitted, error, chunks,
                   answer, auth, cacheVars, clear_seen>>
Begin(s) ==
    /\ st_pc[s] = "created"
    /\ work_loads' = [work_loads EXCEPT ![st_args[s].index] = @ + 1]
    /\ load' = [load EXCEPT ![s].inc = @ + 1]
    /\ predecessors' = [predecessors EXCEPT
                           ![s] = {t \in Streams : st_pc[t] \in EndedPcs}]
    /\ IF media_sessions[st_args[s].dc_id] # 0
       THEN /\ media_session' = [media_session EXCEPT
                                    ![s] = media_sessions[st_args[s].dc_id]]
            /\ st_pc' = [st_pc EXCEPT ![s] = "session"]
            /\ UNCHANGED sessions
       ELSE IF st_args[s].dc_id # client_dc_id
       THEN /\ st_pc' = [st_pc EXCEPT ![s] = "auth_create"]
            /\ UNCHANGED <<sessions, media_session>>
       ELSE /\ st_pc' = [st_pc EXCEPT ![s] = "start"]
            /\ sessions' = [sessions EXCEPT ![s] =
                  [dc_id |-> st_args[s].dc_id, key |-> "stored",
                   state |-> "new", imported |-> FALSE]]
            /\ media_session' = [media_session EXCEPT ![s] = s]
    /\ UNCHANGED <<media_sessions, st_args, attempt, current_part,
                   offset, location, request, sleep_for, emitted, error, chunks,
                   answer, auth, cacheVars, clear_seen>>

\* generate_media_session, lines 117-125: the key exchange is done; the
\* session is constructed with the new key and its start begins.
AuthCreate(s) ==
    /\ st_pc[s] = "auth_create"
    /\ st_pc' = [st_pc EXCEPT ![s] = "start"]
    /\ sessions' = [sessions EXCEPT ![s] =
          [dc_id |-> st_args[s].dc_id, key |-> "created",
           state |-> "new", imported |-> FALSE]]
    /\ media_session' = [media_session EXCEPT ![s] = s]
    /\ UNCHANGED <<media_sessions, work_loads, st_args, attempt, current_part,
                   offset, location, request, sleep_for, emitted, error, chunks,
                   load, answer, auth, cacheVars, historyVars>>

\* generate_media_session, lines 125-131: the session of another data centre
\* has started; the loop is entered and the first exchange begins.
CrossStarted(s) ==
    /\ st_pc[s] = "start"
    /\ st_args[s].dc_id # client_dc_id
    /\ sessions' = [sessions EXCEPT ![s].state = "started"]
    /\ attempt' = [attempt EXCEPT ![s] = 0]
    /\ st_pc' = [st_pc EXCEPT ![s] = "exchange"]
    /\ UNCHANGED <<media_sessions, work_loads, st_args, media_session,
                   current_part, offset, location, request, sleep_for, emitted,
                   error, chunks, load, answer, auth, cacheVars, historyVars>>

\* generate_media_session, lines 161-167: the session of the home data
\* centre has started; it is stored and returned.
HomeStarted(s) ==
    /\ st_pc[s] = "start"
    /\ st_args[s].dc_id = client_dc_id
    /\ sessions' = [sessions EXCEPT ![s].state = "started"]
    /\ Store(s)
    /\ st_pc' = [st_pc EXCEPT ![s] = "session"]
    /\ UNCHANGED <<work_loads, st_args, media_session, attempt, current_part,
                   offset, location, request, sleep_for, emitted, error, chunks,
                   load, answer, auth, cacheVars, historyVars>>

\* generate_media_session, lines 125 and 161: Session.start raises; the
\* exception leaves generate_media_session and yield_file (line 252).
StartFails(s) ==
    /\ st_pc[s] = "start"
    /\ st_pc' = [st_pc EXCEPT ![s] = "raised"]
    /\ error' = [error EXCEPT ![s] = "ConnectionError"]
    /\ UNCHANGED <<media_sessions, sessions, work_loads, st_args, media_session,
                   attempt, current_part, offset, location, request, sleep_for,
                   emitted, chunks, load, answer, auth, cacheVars, historyVars>>

\* generate_media_session, lines 129-138 and 163-167: the authorization is
\* exported and imported; the loop is left, the session stored and returned.
ExchangeOk(s) ==
    /\ st_pc[s] = "exchange"
    /\ sessions' = [sessions EXCEPT ![s].imported = TRUE]
    /\ auth' = [auth EXCEPT ![s].exchanges = @ + 1]
    /\ Answer(s, "ok", 0)
    /\ Store(s)
    /\ st_pc' = [st_pc EXCEPT ![s] = "session"]
    /\ UNCHANGED <<work_loads, st_args, media_session, attempt, current_part,
                   offset, location, request, sleep_for, emitted, error, chunks,
                   load, cacheVars, historyVars>>

\* generate_media_session, lines 139-145: AuthBytesInvalid.
MutExchangeAuthBytesInvalid(s) ==
    /\ st_pc[s] = "exchange"
    /\ IF attempt[s] = LastAttempt
       THEN /\ Store(s)
            /\ st_pc' = [st_pc EXCEPT ![s] = "raised"]
            /\ error' = [error EXCEPT ![s] = "AuthBytesInvalid"]
            /\ Failed(s, "AuthBytesInvalid", <<>>)
            /\ UNCHANGED sleep_for
       ELSE /\ st_pc' = [st_pc EXCEPT ![s] = "auth_sleep"]
            /\ sleep_for' = [sleep_for EXCEPT ![s] = Backoff(attempt[s])]
            /\ Failed(s, "AuthBytesInvalid", <<Backoff(attempt[s])>>)
            /\ UNCHANGED <<media_sessions, error>>
    /\ Answer(s, "AuthBytesInvalid", 0)
    /\ UNCHANGED <<sessions, work_loads, st_args, media_session, attempt,
                   current_part, offset, location, request, emitted, chunks,
                   load, cacheVars, historyVars>>
ExchangeAuthBytesInvalid(s) ==
    /\ st_pc[s] = "exchange"
    /\ IF attempt[s] = LastAttempt
       THEN /\ sessions' = [sessions EXCEPT ![s].state = "stopped"]
            /\ st_pc' = [st_pc EXCEPT ![s] = "raised"]
            /\ error' = [error EXCEPT ![s] = "AuthBytesInvalid"]
            /\ Failed(s, "AuthBytesInvalid", <<>>)
            /\ UNCHANGED sleep_for
       ELSE /\ st_pc' = [st_pc EXCEPT ![s] = "auth_sleep"]
            /\ sleep_for' = [sleep_for EXCEPT ![s] = Backoff(attempt[s])]
            /\ Failed(s, "AuthBytesInvalid", <<Backoff(attempt[s])>>)
            /\ UNCHANGED <<sessions, error>>
    /\ Answer(s, "AuthBytesInvalid", 0)
    /\ UNCHANGED <<media_sessions, work_loads, st_args, media_session, attempt,
                   current_part, offset, location, request, emitted, chunks,
                   load, cacheVars, historyVars>>

\* generate_media_session, lines 146-148: FloodWait.
ExchangeFloodWait(s, w) ==
    /\ st_pc[s] = "exchange"
    /\ st_pc' = [st_pc EXCEPT ![s] = "auth_sleep"]
    /\ sleep_for' = [sleep_for EXCEPT ![s] = FloodSleep(w)]
    /\ Failed(s, "FloodWait", <<FloodSleep(w)>>)
    /\ Answer(s, "FloodWait", w)
    /\ UNCHANGED <<media_sessions, sessions, work_loads, st_args, media_session,
                   attempt, current_part, offset, location, request, emitted,
                   error, chunks, load, cacheVars, historyVars>>

\* generate_media_session, lines 149-151: any other RPCError.
ExchangeRPCError(s) ==
    /\ st_pc[s] = "exchange"
    /\ st_pc' = [st_pc EXCEPT ![s] = "auth_sleep"]
    /\ sleep_for' = [sleep_for EXCEPT ![s] = RpcSleep]
    /\ Failed(s, "RPCError", <<RpcSleep>>)
    /\ Answer(s, "RPCError", 0)
    /\ UNCHANGED <<media_sessions, sessions, work_loads, st_args, media_session,
                   attempt, current_part, offset, location, request, emitted,
                   error, chunks, load, cacheVars, historyVars>>

\* generate_media_session, lines 127-129 and 163-167: the sleep is over; the
\* next iteration begins an exchange, or range(6) is exhausted and the code
\* after the loop stores and returns the session.
MutAuthWake(s) ==
    /\ st_pc[s] = "auth_sleep"
    /\ sleep_for' = [sleep_for EXCEPT ![s] = 0]
    /\ IF attempt[s] < Attempts
       THEN /\ attempt' = [attempt EXCEPT ![s] = @ + 1]
            /\ st_pc' = [st_pc EXCEPT ![s] = "exchange"]
            /\ UNCHANGED media_sessions
       ELSE /\ Store(s)
            /\ st_pc' = [st_pc EXCEPT ![s] = "session"]
            /\ UNCHANGED attempt
    /\ UNCHANGED <<sessions, work_loads, st_args, media_session, current_part,
                   offset, location, request, emitted, error, chunks, load,
                   answer, auth, cacheVars, historyVars>>
AuthWake(s) ==
    /\ st_pc[s] = "auth_sleep"
    /\ sleep_for' = [sleep_for EXCEPT ![s] = 0]
    /\ IF attempt[s] + 1 < Attempts
       THEN /\ attempt' = [attempt EXCEPT ![s] = @ + 1]
            /\ st_pc' = [st_pc EXCEPT ![s] = "exchange"]
            /\ UNCHANGED media_sessions
       ELSE /\ Store(s)
            /\ st_pc' = [st_pc EXCEPT ![s] = "session"]
            /\ UNCHANGED attempt
    /\ UNCHANGED <<sessions, work_loads, st_args, media_session, current_part,
                   offset, location, request, emitted, error, chunks, load,
                   answer, auth, cacheVars, historyVars>>

\* yield_file, lines 252-263: generate_media_session has returned; the part
\* counter and the locator are set and the first chunk is requested.  (The
\* locals and the record of generate_media_session end here.)
Continue(s) ==
    /\ st_pc[s] = "session"
    /\ current_part' = [current_part EXCEPT ![s] = 1]
    /\ location' = [location EXCEPT ![s] = get_location(st_args[s])]
    /\ attempt' = [attempt EXCEPT ![s] = 0]
    /\ auth' = [auth EXCEPT ![s] = NoAuth]
    /\ answer' = [answer EXCEPT ![s] = NoAnswer]
    /\ IF 1 <= st_args[s].part_count
       THEN /\ request' = [request EXCEPT ![s] =
                   [offset |-> offset[s], limit |-> st_args[s].chunk_size,
                    session |-> media_session[s],
                    location |-> get_location(st_args[s])]]
            /\ st_pc' = [st_pc EXCEPT ![s] = "fetch"]
            /\ UNCHANGED <<work_loads, load>>
       ELSE /\ Release(s)
            /\ st_pc' = [st_pc EXCEPT ![s] = "done"]
            /\ UNCHANGED request
    /\ UNCHANGED <<media_sessions, sessions, st_args, media_session, offset,
                   sleep_for, emitted, error, chunks, cacheVars, historyVars>>

\* yield_file, lines 264-266 and 294-296: the response is no upload.File.
FetchNotFile(s) ==
    /\ st_pc[s] = "fetch"
    /\ request' = [request EXCEPT ![s] = NoRequest]
    /\ Release(s)
    /\ st_pc' = [st_pc EXCEPT ![s] = "done"]
    /\ Answer(s, "NotFile", 0)
    /\ UNCHANGED <<media_sessions, sessions, st_args, media_session, attempt,
                   current_part, offset, location, sleep_for, emitted, error,
                   chunks, auth, cacheVars, historyVars>>

\* yield_file, lines 268-271 and 294-296: the chunk is empty.
MutFetchEmpty(s) ==
    /\ st_pc[s] = "fetch"
    /\ request' = [request EXCEPT ![s] = NoRequest]
    /\ sleep_for' = [sleep_for EXCEPT ![s] = RpcSleep]
    /\ st_pc' = [st_pc EXCEPT ![s] = "fetch_sleep"]
    /\ Answer(s, "Empty", 0)
    /\ UNCHANGED <<media_sessions, sessions, work_loads, st_args, media_session,
                   attempt, current_part, offset, location, emitted, error,
                   chunks, load, auth, cacheVars, historyVars>>
FetchEmpty(s) ==
    /\ st_pc[s] = "fetch"
    /\ request' = [request EXCEPT ![s] = NoRequest]
    /\ Release(s)
    /\ st_pc' = [st_pc EXCEPT ![s] = "done"]
    /\ Answer(s, "Empty", 0)
    /\ UNCHANGED <<media_sessions, sessions, st_args, media_session, attempt,
                   current_part, offset, location, sleep_for, emitted, error,
                   chunks, auth, cacheVars, historyVars>>

\* yield_file, lines 268-280: a chunk of n bytes arrives; its slice is
\* yielded and the generator waits for the consumer.
FetchData(s, n) ==
    /\ st_pc[s] = "fetch"
    /\ n \in DataLens(st_args[s].chunk_size)
    /\ LET chunk == Remote(request[s].offset, n)
       IN /\ emitted' = [emitted EXCEPT
                            ![s] = Append(@, SliceOf(chunk, current_part[s], st_args[s]))]
          /\ chunks' = [chunks EXCEPT ![s] = Append(@, chunk)]
    /\ request' = [request EXCEPT ![s] = NoRequest]
    /\ st_pc' = [st_pc EXCEPT ![s] = "yield"]
    /\ Answer(s, "File", n)
    /\ UNCHANGED <<media_sessions, sessions, work_loads, st_args, media_session,
                   attempt, current_part, offset, location, sleep_for, error,
                   load, auth, cacheVars, historyVars>>

\* yield_file, lines 288-290: FloodWait.
FetchFloodWait(s, w) ==
    /\ st_pc[s] = "fetch"
    /\ request' = [request EXCEPT ![s] = NoRequest]
    /\ sleep_for' = [sleep_for EXCEPT ![s] = FloodSleep(w)]
    /\ st_pc' = [st_pc EXCEPT ![s] = "fetch_sleep"]
    /\ Answer(s, "FloodWait", w)
    /\ UNCHANGED <<media_sessions, sessions, work_loads, st_args, media_session,
                   attempt, current_part, offset, location, emitted, error,
                   chunks, load, auth, cacheVars, historyVars>>

\* yield_file, lines 290 and 257-263: the sleep is over; the loop goes round.
MutFetchWake(s) ==
    /\ st_pc[s] = "fetch_sleep"
    /\ sleep_for' = [sleep_for EXCEPT ![s] = 0]
    /\ GetFile(s, offset[s] + st_args[s].chunk_size)
    /\ st_pc' = [st_pc EXCEPT ![s] = "fetch"]
    /\ UNCHANGED <<media_sessions, sessions, work_loads, st_args, media_session,
                   attempt, current_part, offset, location, emitted, error,
                   chunks, load, answer, auth, cacheVars, historyVars>>
FetchWake(s) ==
    /\ st_pc[s] = "fetch_sleep"
    /\ sleep_for' = [sleep_for EXCEPT ![s] = 0]
    /\ GetFile(s, offset[s])
    /\ st_pc' = [st_pc EXCEPT ![s] = "fetch"]
    /\ UNCHANGED <<media_sessions, sessions, work_loads, st_args, media_session,
                   attempt, current_part, offset, location, emitted, error,
                   chunks, load, answer, auth, cacheVars, historyVars>>

\* yield_file, lines 291-296: RPCError or asyncio.TimeoutError is re-raised.
MutFetchError(s, e) ==
    /\ st_pc[s] = "fetch"
    /\ request' = [request EXCEPT ![s] = NoRequest]
    /\ sleep_for' = [sleep_for EXCEPT ![s] = RpcSleep]
    /\ Answer(s, e, 0)
    /\ st_pc' = [st_pc EXCEPT ![s] = "fetch_sleep"]
    /\ UNCHANGED <<media_sessions, sessions, work_loads, st_args, media_session,
                   attempt, current_part, offset, location, emitted, error,
                   chunks, load, auth, cacheVars, historyVars>>
FetchError(s, e) ==
    /\ st_pc[s] = "fetch"
    /\ request' = [request EXCEPT ![s] = NoRequest]
    /\ error' = [error EXCEPT ![s] = e]
    /\ Release(s)
    /\ st_pc' = [st_pc EXCEPT ![s] = "raised"]
    /\ Answer(s, e, 0)
    /\ UNCHANGED <<media_sessions, sessions, st_args, media_session, attempt,
                   current_part, offset, location, sleep_for, emitted, chunks,
                   auth, cacheVars, historyVars>>

\* yield_file, lines 282-286, then 294-296 or 257-263: the consumer asks for
\* the next slice.
MutResume(s) ==
    /\ st_pc[s] = "yield"
    /\ current_part' = [current_part EXCEPT ![s] = @ + 1]
    /\ IF current_part[s] + 1 > st_args[s].part_count
       THEN /\ Release(s)
            /\ st_pc' = [st_pc EXCEPT ![s] = "done"]
            /\ UNCHANGED request
       ELSE /\ GetFile(s, offset[s])
            /\ st_pc' = [st_pc EXCEPT ![s] = "fetch"]
            /\ UNCHANGED <<work_loads, load>>
    /\ UNCHANGED <<media_sessions, sessions, st_args, media_session, attempt,
                   offset, location, sleep_for, emitted, error, chunks, answer,
                   auth, cacheVars, historyVars>>
Resume(s) ==
    /\ st_pc[s] = "yield"
    /\ current_part' = [current_part EXCEPT ![s] = @ + 1]
    /\ offset' = [offset EXCEPT ![s] = @ + st_args[s].chunk_size]
    /\ IF current_part[s] + 1 > st_args[s].part_count
       THEN /\ Release(s)
            /\ st_pc' = [st_pc EXCEPT ![s] = "done"]
            /\ UNCHANGED request
       ELSE /\ GetFile(s, offset[s] + st_args[s].chunk_size)
            /\ st_pc' = [st_pc EXCEPT ![s] = "fetch"]
            /\ UNCHANGED <<work_loads, load>>
    /\ UNCHANGED <<media_sessions, sessions, st_args, media_session, attempt,
                   location, sleep_for, emitted, error, chunks, answer, auth,
                   cacheVars, historyVars>>

\* The consumer closes the generator at a yield: GeneratorExit is raised
\* there and the finally block runs, lines 294-296.
Close(s) ==
    /\ st_pc[s] = "yield"
    /\ Release(s)
    /\ st_pc' = [st_pc EXCEPT ![s] = "closed"]
    /\ UNCHANGED <<media_sessions, sessions, st_args, media_session, attempt,
                   current_part, offset, location, request, sleep_for, emitted,
                   error, chunks, answer, auth, cacheVars, historyVars>>

\* The consumer's task is cancelled while the generator awaits inside the try
\* block (lines 259, 290): CancelledError passes the except clauses and the
\* finally block runs, lines 294-296.
CancelInTry(s) ==
    /\ st_pc[s] \in {"fetch", "fetch_sleep"}
    /\ request' = [request EXCEPT ![s] = NoRequest]
    /\ sleep_for' = [sleep_for EXCEPT ![s] = 0]
    /\ Release(s)
    /\ st_pc' = [st_pc EXCEPT ![s] = "cancelled"]
    /\ UNCHANGED <<media_sessions, sessions, st_args, media_session, attempt,
                   current_part, offset, location, emitted, error, chunks,
                   answer, auth, cacheVars, historyVars>>

\* The consumer's task is cancelled while generate_media_session awaits
\* (line 252, before the try block): CancelledError leaves yield_file.
CancelInSession(s) ==
    /\ st_pc[s] \in {"auth_create", "start", "exchange", "auth_sleep"}
    /\ sleep_for' = [sleep_for EXCEPT ![s] = 0]
    /\ st_pc' = [st_pc EXCEPT ![s] = "cancelled"]
    /\ UNCHANGED <<media_sessions, sessions, work_loads, st_args, media_session,
                   attempt, current_part, offset, location, request, emitted,
                   error, chunks, load, answer, auth, cacheVars, historyVars>>

\* The steps of generator s after its creation.
StreamStep(s) ==
    \/ CloseUnstarted(s)
    \/ Begin(s)
    \/ AuthCreate(s)
    \/ CrossStarted(s)
    \/ HomeStarted(s)
    \/ StartFails(s)
    \/ ExchangeOk(s)
    \/ ExchangeAuthBytesInvalid(s)
    \/ \E w \in FloodWaits : ExchangeFloodWait(s, w)
    \/ ExchangeRPCError(s)
    \/ AuthWake(s)
    \/ Continue(s)
    \/ FetchNotFile(s)
    \/ FetchEmpty(s)
    \/ \E n \in ChunkLens : FetchData(s, n)
    \/ \E w \in FloodWaits : FetchFloodWait(s, w)
    \/ FetchWake(s)
    \/ \E e \in {"RPCError", "TimeoutError"} : FetchError(s, e)
    \/ Resume(s)
    \/ Close(s)
    \/ CancelInTry(s)
    \/ CancelInSession(s)

vars == <<cacheVars, streamVars, historyVars>>

Init == CacheInit /\ StreamInit

NextCache ==
    \/ \E c \in Callers, id \in MsgIds : GfpHit(c, id)
    \/ \E c \in Callers, id \in MsgIds : GfpMiss(c, id)
    \/ \E c \in Callers : DecodeAbsent(c)
    \/ \E c \in Callers : DecodeFound(c)
    \/ clean_cache

\* get_file_properties calls and the janitor.
SpecCache == Init /\ [][NextCache]_vars

NextStream ==
    \/ \E a \in RichArgs : Call(1, a)
    \/ StreamStep(1)

\* One yield_file generator, over every request of RichArgs.
SpecStream == Init /\ [][NextStream]_vars

Next ==
    \/ \E s \in Streams : \E a \in ConcArgs : Call(s, a)
    \/ \E s \in Streams : StreamStep(s)
    \/ GfpMiss(1, 1)
    \/ DecodeAbsent(1)
    \/ DecodeFound(1)
    \/ clean_cache

\* Concurrent generators, a get_file_properties call and the janitor.
Spec == Init /\ [][Next]_vars

\* The same, where the generator is not left waiting for ever: the remote
\* answers every request, every sleep ends, and the consumer advances or closes
\* a generator that waits at a yield.
FairStream == SpecStream /\ WF_vars(StreamStep(1))

NextJanitor ==
    \/ \E a \in ConcArgs : Call(1, a)
    \/ StreamStep(1)
    \/ GfpMiss(1, 1)
    \/ DecodeAbsent(1)
    \/ DecodeFound(1)
    \/ clean_cache

\* One generator, a get_file_properties call and the janitor.
SpecJanitor == Init /\ [][NextJanitor]_vars

NextPair ==
    \/ \E s \in Streams : \E a \in PairArgs : Call(s, a)
    \/ \E s \in Streams : StreamStep(s)

\* Two yield_file generators, concurrent or one after the other.
SpecPair == Init /\ [][NextPair]_vars

(* ------------------------- claims: the cache -------------------------- *)
\* A call that entered while an earlier return for its id stood (no clear since).
AfterReturn(c) == gfp_entry[c].seen # <<>>

\* C5 as stated: once get_file_properties(id) has returned a FileId and no
\* clear has run since, every later call for id returns that identical FileId
\* and does not invoke the decoder.
C5_Identical ==
    \A c \in Callers : AfterReturn(c) =>
        /\ gfp_pc[c] = "returned"
        /\ c \notin decoder_calls
        /\ \A k \in 1..Len(gfp_entry[c].seen) : gfp_ret[c] = gfp_entry[c].seen[k]

\* C5 amended: such a later call does not invoke the decoder and returns the
\* FileId that the most recent earlier call returned (a call that was waiting
\* for the decoder may have stored its own FileId in between); a call on an
\* uncached id that returns has invoked the decoder, so of two successive
\* calls the first invokes it and the second does not.
C5_LastReturned ==
    \A c \in Callers :
        /\ AfterReturn(c) =>
              /\ gfp_pc[c] = "returned"
              /\ c \notin decoder_calls
              /\ gfp_ret[c] = gfp_entry[c].seen[Len(gfp_entry[c].seen)]
        /\ (gfp_pc[c] = "returned" /\ ~AfterReturn(c)) => c \in decoder_calls

\* Three calls, the first two concurrent with different decodes, the third
\* after both returned.
C5_Witness ==
    \E c \in Callers :
        /\ gfp_pc[c] = "returned"
        /\ Len(gfp_entry[c].seen) = 2
        /\ gfp_entry[c].seen[1] # gfp_entry[c].seen[2]

\* A call that returned what it found in the cache.
Served(c) == gfp_pc[c] = "returned" /\ c \notin decoder_calls

\* C6 as stated: under every interleaving the first call for an id that
\* enters after a clear that evicted the id invokes the decoder, and no
\* FileId decoded before a clear is served from the cache to a call that
\* entered after it.
C6_Redecoded ==
    \A c \in Callers :
        /\ gfp_entry[c].first # "none" => c \in decoder_calls
        /\ Served(c) => gfp_ret[c].decode \notin gfp_entry[c].returned

\* C6 amended: the first call for an id that enters after a clear that evicted
\* the id invokes the decoder unless a call for the id was waiting for the
\* decoder when the clear ran (it stores its FileId after the clear), and no
\* FileId decoded before a clear is served from the cache to a call that
\* entered after it.
C6_RedecodedUnlessInFlight ==
    \A c \in Callers :
        /\ gfp_entry[c].first = "evicted" => c \in decoder_calls
        /\ Served(c) => gfp_ret[c].decode \notin gfp_entry[c].returned

\* A call entered first after an eviction and is decoding again while an
\* earlier call holds the FileId cached before the clear.
C6_Witness ==
    \E c, b \in Callers :
        /\ gfp_entry[c].first = "evicted"
        /\ c \in decoder_calls
        /\ b \in gfp_entry[c].returned
        /\ gfp_id[b] = gfp_id[c]

\* C7: when the decoder answers absent the call raises FileNotFound, and no
\* step of the call changes the cache: nothing is stored for the id.
C7_NotFound ==
    /\ [](\A c \in Callers : decoder_answer[c] = "absent" =>
             /\ gfp_pc[c] = "FileNotFound"
             /\ gfp_ret[c] = NoFile)
    /\ [][\A c \in Callers :
             (gfp_pc'[c] # gfp_pc[c] /\ gfp_pc'[c] \in {"decoding", "FileNotFound"})
                 => cached_file_ids' = cached_file_ids]_vars

\* A call failed with FileNotFound while the cache held another entry.
C7_Witness ==
    \E c \in Callers :
        /\ gfp_pc[c] = "FileNotFound"
        /\ DOMAIN cached_file_ids # {}
        /\ gfp_id[c] \notin DOMAIN cached_file_ids

\* C15: get_file_ids is awaited with the lock released, so calls for one
\* uncached id can each invoke it; each stores what it decoded when it returns,
\* so the entry holds the FileId of the call that stored last, whole, and an
\* entry is there from the first store until the next clear.
C15_LastWriteWins ==
    /\ [](\A id \in MsgIds :
             /\ id \in DOMAIN cached_file_ids =>
                   /\ cached_file_ids[id] # NoFile
                   /\ cached_file_ids[id].message_id = id
                   /\ cached_file_ids[id].decode \in decoder_calls
             /\ returned_since[id] # <<>> =>
                   /\ id \in DOMAIN cached_file_ids
                   /\ cached_file_ids[id] =
                         returned_since[id][Len(returned_since[id])])
    /\ [][\A c \in Callers :
             (gfp_pc[c] = "decoding" /\ gfp_pc'[c] = "returned") =>
                 /\ gfp_ret'[c] = FileId(gfp_id[c], c)
                 /\ cached_file_ids' =
                       [x \in DOMAIN cached_file_ids \cup {gfp_id[c]} |->
                           IF x = gfp_id[c] THEN gfp_ret'[c]
                           ELSE cached_file_ids[x]]]_vars

\* Two calls missed the same id and both decoded; the entry holds the FileId
\* of the one that stored second.
C15_Witness ==
    \E c, b \in Callers : \E id \in MsgIds :
        /\ c # b
        /\ {c, b} \subseteq decoder_calls
        /\ gfp_entry[c].seen = <<>> /\ gfp_entry[b].seen = <<>>
        /\ returned_since[id] = <<FileId(id, c), FileId(id, b)>>
        /\ cached_file_ids[id] = FileId(id, b)

(* ------------------ claims: sessions and streams --------------------- *)
\* The generator has ended: exhausted, closed, cancelled, or by an exception.
Ended(s) == st_pc[s] \in EndedPcs
\* generate_media_session is running for s.
InSession(s) == st_pc[s] \in {"auth_create", "start", "exchange", "auth_sleep"}
\* The session that generate_media_session returned to s is usable: started,
\* authorized on its data centre, and the one stored for the data centre.
Usable(s) ==
    /\ media_session[s] # 0
    /\ sessions[media_session[s]].state = "started"
    /\ sessions[media_session[s]].imported
    /\ media_sessions[st_args[s].dc_id] = media_session[s]

\* C1: however a stream that incremented work_loads[index] ends, it has
\* decremented it exactly once, and the counter counts the streams that
\* incremented it and have not ended (so it is back at its value before the
\* stream when no other stream runs).
C1_LoadReleased ==
    /\ \A s \in Streams : (Ended(s) /\ load[s].inc = 1) => load[s].dec = 1
    /\ \A i \in Indices :
          work_loads[i] = Cardinality({s \in Streams :
              st_args[s].index = i /\ load[s].inc = 1 /\ ~Ended(s)})

\* C2: when all six exchanges of a call failed, whatever the failures, the
\* call is still absorbing the last one or has raised AuthBytesInvalid; it
\* has not returned a session.
C2_ExhaustedRaises ==
    \A s \in Streams :
        (auth[s].exchanges = Attempts /\ answer[s].kind # "ok") =>
            /\ st_pc[s] \in {"auth_sleep", "raised", "cancelled"}
            /\ st_pc[s] = "raised" => error[s] = "AuthBytesInvalid"

\* C3: when every failure of a call is AuthBytesInvalid, six failures end in
\* AuthBytesInvalid raised after sleeps of exactly 1, 2, 4, 8, 16 seconds with
\* the session stopped, and five failures followed by a success end in a
\* usable session returned after sleeps of exactly 1, 2, 4, 8, 16 seconds.
C3_Backoff ==
    \A s \in Streams :
        (auth[s].only_abi /\ auth[s].exchanges = Attempts) =>
            /\ auth[s].slept = <<1, 2, 4, 8, 16>>
            /\ answer[s].kind = "AuthBytesInvalid" =>
                  /\ st_pc[s] = "raised"
                  /\ error[s] = "AuthBytesInvalid"
                  /\ sessions[s].state = "stopped"
            /\ answer[s].kind # "AuthBytesInvalid" =>
                  /\ answer[s].kind = "ok"
                  /\ st_pc[s] = "session"
                  /\ Usable(s)

\* Five AuthBytesInvalid, then the sixth exchange succeeded.
C3_Witness ==
    \E s \in Streams :
        /\ st_pc[s] = "session"
        /\ auth[s].only_abi
        /\ auth[s].exchanges = Attempts
        /\ attempt[s] = LastAttempt
        /\ answer[s].kind = "ok"

\* C4: after a FloodWait at any attempt 0..5 the call sleeps value + 1
\* seconds and then issues another exchange; the FloodWait is never raised to
\* the caller and is never the last answer before the call returns.
C4_FloodRetried ==
    \A s \in Streams :
        ((InSession(s) \/ st_pc[s] \in {"session", "raised"})
            /\ answer[s].kind = "FloodWait") =>
            /\ st_pc[s] \in {"auth_sleep", "exchange"}
            /\ st_pc[s] = "auth_sleep" => sleep_for[s] = answer[s].value + 1

\* chunk[a:b] for 0 <= a and 0 <= b, element by element.
Cut(chunk, a, b) ==
    LET lo == IF a < Len(chunk) THEN a ELSE Len(chunk)
        hi == IF b < Len(chunk) THEN b ELSE Len(chunk)
    IN [i \in 1..(IF hi > lo THEN hi - lo ELSE 0) |-> chunk[lo + i]]

\* C8: the k-th slice is chunk[firstCut:lastCut] of the k-th chunk when
\* part_count = 1, chunk[firstCut:] when k = 1 < part_count, chunk[:lastCut]
\* when k = part_count > 1, and the chunk otherwise; the 1024-byte request
\* cut at 100 and 900 yields one slice of 800 bytes, chunk[100:900].
C8_Slices ==
    \A s \in Streams :
        /\ Len(emitted[s]) = Len(chunks[s])
        /\ Len(emitted[s]) <= st_args[s].part_count
        /\ st_pc[s] = "yield" => current_part[s] = Len(emitted[s])
        /\ \A k \in 1..Len(emitted[s]) :
              LET a == st_args[s]
                  chunk == chunks[s][k]
              IN /\ chunk # <<>>
                 /\ emitted[s][k] =
                       IF a.part_count = 1
                       THEN Cut(chunk, a.first_part_cut, a.last_part_cut)
                       ELSE IF k = 1
                       THEN Cut(chunk, a.first_part_cut, Len(chunk))
                       ELSE IF k = a.part_count
                       THEN Cut(chunk, 0, a.last_part_cut)
                       ELSE chunk
        /\ (st_args[s] = BoundaryArgs /\ emitted[s] # <<>>
               /\ Len(chunks[s][1]) = 1024) =>
              /\ Len(emitted[s]) = 1
              /\ Len(emitted[s][1]) = 800
              /\ \A i \in 1..800 : emitted[s][1][i] = chunks[s][1][100 + i]

\* Three parts were yielded, the first and the last cut.
C8_Witness ==
    \E s \in Streams :
        /\ st_args[s].part_count = 3
        /\ st_args[s].first_part_cut = 1
        /\ st_args[s].last_part_cut = 2
        /\ Len(emitted[s]) = 3
        /\ Len(emitted[s][1]) = Len(chunks[s][1]) - 1
        /\ emitted[s][2] = chunks[s][2]
        /\ Len(emitted[s][3]) = 2

\* The 1024-byte request of C8 has yielded its slice.
C8_BoundaryReached ==
    \E s \in Streams :
        /\ st_args[s] = BoundaryArgs
        /\ Len(emitted[s]) = 1
        /\ Len(chunks[s][1]) = 1024

\* C9: a FloodWait answered to a chunk request makes the stream sleep exactly
\* value + 1 seconds; nothing is yielded, current_part and offset stay, and
\* the stream's next step requests the same part at the same offset again;
\* the FloodWait is never raised to the consumer.
C9_SamePartAgain ==
    /\ [](\A s \in Streams : error[s] # "FloodWait")
    /\ [][\A s \in Streams :
             /\ (st_pc[s] = "fetch" /\ answer'[s].kind = "FloodWait"
                    /\ answer'[s] # answer[s]) =>
                   /\ st_pc'[s] = "fetch_sleep"
                   /\ sleep_for'[s] = answer'[s].value + 1
                   /\ request[s].offset = offset[s]
             /\ (st_pc[s] = "fetch_sleep" /\ st_pc'[s] # "cancelled") =>
                   /\ st_pc'[s] \in {"fetch_sleep", "fetch"}
                   /\ emitted'[s] = emitted[s]
                   /\ current_part'[s] = current_part[s]
                   /\ offset'[s] = offset[s]
                   /\ st_pc'[s] = "fetch" =>
                         request'[s] = [offset |-> offset[s],
                                        limit |-> st_args[s].chunk_size,
                                        session |-> media_session[s],
                                        location |-> location[s]]]_vars

\* The second part is requested again after a FloodWait of 3 seconds.
C9_Witness ==
    \E s \in Streams :
        /\ st_pc[s] = "fetch"
        /\ answer[s] = [kind |-> "FloodWait", value |-> 3]
        /\ current_part[s] = 2
        /\ request[s].offset = st_args[s].offset + st_args[s].chunk_size

\* C10: an RPCError or a timeout answered to a chunk request ends the stream
\* with that same exception: no request and no slice follows, and the slices
\* yielded before stay as they were.
C10_ErrorEnds ==
    /\ [](\A s \in Streams :
             (current_part[s] >= 1 /\ answer[s].kind \in {"RPCError", "TimeoutError"}) =>
                 /\ st_pc[s] = "raised"
                 /\ error[s] = answer[s].kind
                 /\ request[s] = NoRequest)
    /\ [][\A s \in Streams :
             /\ (st_pc[s] = "fetch" /\ st_pc'[s] = "raised") =>
                   emitted'[s] = emitted[s]
             /\ st_pc[s] = "raised" =>
                   /\ st_pc'[s] = "raised"
                   /\ emitted'[s] = emitted[s]
                   /\ request'[s] = request[s]
                   /\ error'[s] = error[s]]_vars

\* The second request timed out after one slice was yielded.
C10_Witness ==
    \E s \in Streams :
        /\ st_pc[s] = "raised"
        /\ error[s] = "TimeoutError"
        /\ current_part[s] = 2
        /\ Len(emitted[s]) = 1

(* ---------------------- claims: the session map ---------------------- *)
\* Call s first ran after call t for the same data centre had failed with
\* AuthBytesInvalid.
AfterFailure(s, t) ==
    /\ t \in predecessors[s]
    /\ error[t] = "AuthBytesInvalid"
    /\ st_args[t].dc_id = st_args[s].dc_id

\* C11: a call that failed with AuthBytesInvalid has stopped the session it
\* started and stored nothing in client.media_sessions; a later call for the
\* same data centre creates afresh: a new key, a new session started, and the
\* exchanges counted from attempt 0.
C11_FailureDiscards ==
    \A s \in Streams :
        /\ (st_pc[s] = "raised" /\ error[s] = "AuthBytesInvalid") =>
              /\ media_session[s] = s
              /\ sessions[s].state = "stopped"
              /\ \A d \in DcIds : media_sessions[d] # s
        /\ \A t \in Streams \ {s} : AfterFailure(s, t) =>
              /\ media_session[s] \in {0, s}
              /\ media_session[s] = s => sessions[s].key = "created"
              /\ st_pc[s] = "exchange" =>
                    /\ sessions[s].state = "started"
                    /\ attempt[s] = auth[s].exchanges

\* After the first call failed, the second is at its first exchange.
C11_Witness ==
    \E s \in Streams : \E t \in Streams \ {s} :
        /\ AfterFailure(s, t)
        /\ st_pc[s] = "exchange"
        /\ attempt[s] = 0
        /\ sessions[t].state = "stopped"

\* C12: a call that finds an entry for its data centre in
\* client.media_sessions returns exactly that entry in the same step, with no
\* key created, no session constructed or started, no exchange, and the map
\* and every session unchanged; a request after an earlier one to the same
\* data centre shares its session.
C12_CachedReturned ==
    /\ [](\A s \in Streams :
             (st_pc[s] = "session" /\ media_session[s] # s) =>
                 /\ media_session[s] = media_sessions[st_args[s].dc_id]
                 /\ sessions[s] = NoSession
                 /\ auth[s] = NoAuth
                 /\ attempt[s] = 0)
    /\ [][\A s \in Streams :
             (st_pc[s] = "created" /\ st_pc'[s] \notin {"created", "closed"}
                 /\ media_sessions[st_args[s].dc_id] # 0) =>
                   /\ st_pc'[s] = "session"
                   /\ media_session'[s] = media_sessions[st_args[s].dc_id]
                   /\ media_sessions' = media_sessions
                   /\ sessions' = sessions
                   /\ auth' = auth]_vars

\* The second request, made after the first ended, holds the first's session.
C12_Witness ==
    \E s \in Streams : \E t \in Streams \ {s} :
        /\ t \in predecessors[s]
        /\ st_pc[t] = "done"
        /\ st_pc[s] = "session"
        /\ media_session[s] = t
        /\ media_session[t] = t

\* generate_media_session has returned to s the session it constructed.
Constructed(s) ==
    /\ media_session[s] = s
    /\ st_pc[s] = "session" \/ current_part[s] >= 1

\* C14: the map is read and written with no lock held across the awaits in
\* between, so two calls for one data centre can each construct and start a
\* session; each stores its own when it returns, whatever the map holds, and
\* leaves the other's session as it is: the map holds the session stored
\* last, and the one it replaced stays started and is not stopped.
C14_Overwrites ==
    /\ [](\A s \in Streams : \A t \in Streams \ {s} :
             (Constructed(s) /\ Constructed(t)
                 /\ st_args[s].dc_id = st_args[t].dc_id) =>
                 /\ media_sessions[st_args[s].dc_id] \in {s, t}
                 /\ sessions[s].state = "started"
                 /\ sessions[t].state = "started")
    /\ [][\A s \in Streams :
             (st_pc[s] # "session" /\ st_pc'[s] = "session"
                 /\ media_session'[s] = s) =>
                   /\ media_sessions'[st_args[s].dc_id] = s
                   /\ \A t \in Streams \ {s} : sessions'[t] = sessions[t]]_vars

\* Both calls constructed a session for the data centre; the map holds one,
\* the other is started and in no entry of the map.
C14_Witness ==
    \E s \in Streams : \E t \in Streams \ {s} :
        /\ Constructed(s) /\ Constructed(t)
        /\ st_args[s].dc_id = st_args[t].dc_id
        /\ media_sessions[st_args[s].dc_id] = s
        /\ sessions[t].state = "started"
        /\ \A d \in DcIds : media_sessions[d] # t

\* C16: whatever the exchanges answer, a call makes at most six; every
\* failure, of any kind, uses up one attempt of range(6), so the exchange in
\* progress is the one of index attempt, and after the sixth answer the call
\* only sleeps, returns or raises.
C16_Budget ==
    \A s \in Streams :
        /\ auth[s].exchanges <= Attempts
        /\ attempt[s] \in 0..LastAttempt
        /\ st_pc[s] = "exchange" => auth[s].exchanges = attempt[s]
        /\ st_pc[s] = "auth_sleep" => auth[s].exchanges = attempt[s] + 1
        /\ auth[s].exchanges = Attempts =>
              st_pc[s] \in {"auth_sleep", "session", "raised", "cancelled"}

\* The call has returned after six exchanges that did not all fail with
\* AuthBytesInvalid.
C16_Witness ==
    \E s \in Streams :
        /\ auth[s].exchanges = Attempts
        /\ ~auth[s].only_abi
        /\ st_pc[s] = "session"

(* --------------------------- claims: streams -------------------------- *)
\* The generator sleeps out a FloodWait answered to a chunk request.
Flooded(s) == st_pc[s] = "fetch_sleep" /\ answer[s].kind = "FloodWait"

\* C13 as stated: whatever the remote answers to each request, a generator
\* that was called eventually ends, and it never yields more than part_count
\* slices.
C13_Finite ==
    /\ [](\A s \in Streams : Len(emitted[s]) <= st_args[s].part_count)
    /\ \A s \in Streams : (st_pc[s] # "none") ~> Ended(s)

\* C13 amended: a generator never yields more than part_count slices, and one
\* that was called eventually ends unless the remote answers FloodWait to its
\* chunk requests again and again without end: each FloodWait is slept out
\* and the same request is made again, with no limit on the repetitions.
C13_FiniteUnlessFlooded ==
    /\ [](\A s \in Streams : Len(emitted[s]) <= st_args[s].part_count)
    /\ \A s \in Streams :
          <>[](~Flooded(s)) => ((st_pc[s] # "none") ~> Ended(s))

\* A generator ended after yielding all of its MaxParts parts.
C13_Witness ==
    \E s \in Streams :
        /\ st_pc[s] = "done"
        /\ st_args[s].part_count = MaxParts
        /\ Len(emitted[s]) = MaxParts

\* C17: once current_part is set, offset is the initial offset plus
\* (current_part - 1) * chunk_size; the request in flight asks chunk_size bytes
\* at offset, of the session and the location obtained before the first
\* request; the part requested is the one after the slices yielded; and
\* current_part and offset advance only together, by 1 and by chunk_size,
\* right after the slice of that part was yielded.
C17_OffsetTracksPart ==
    /\ [](\A s \in Streams : current_part[s] >= 1 =>
             /\ offset[s] = st_args[s].offset
                              + (current_part[s] - 1) * st_args[s].chunk_size
             /\ location[s] = get_location(st_args[s])
             /\ st_pc[s] = "fetch" =>
                   /\ request[s] = [offset |-> offset[s],
                                    limit |-> st_args[s].chunk_size,
                                    session |-> media_session[s],
                                    location |-> location[s]]
                   /\ current_part[s] = Len(emitted[s]) + 1
                   /\ current_part[s] <= st_args[s].part_count)
    /\ [][\A s \in Streams : current_part[s] >= 1 =>
             /\ media_session'[s] = media_session[s]
             /\ location'[s] = location[s]
             /\ (current_part'[s] # current_part[s] \/ offset'[s] # offset[s]) =>
                   /\ st_pc[s] = "yield"
                   /\ Len(emitted[s]) = current_part[s]
                   /\ current_part'[s] = current_part[s] + 1
                   /\ offset'[s] = offset[s] + st_args[s].chunk_size]_vars

\* The third part of a request that starts at a non-zero offset is being
\* fetched.
C17_Witness ==
    \E s \in Streams :
        /\ st_pc[s] = "fetch"
        /\ st_args[s].offset = 2 * ChunkSz
        /\ current_part[s] = 3
        /\ request[s].offset = 4 * ChunkSz

\* C18: a step in which the janitor clears the cache changes nothing of the
\* sessions and the generators: client.media_sessions, work_loads, and each
\* generator's session, location, offset and current_part stay as they are;
\* and the slices of a generator that was in progress when a clear ran are
\* the cuts of the chunks it received, as for any other generator.
C18_ClearFrame ==
    /\ [][((DOMAIN cached_file_ids # {} /\ DOMAIN cached_file_ids' = {})
              \/ clear_seen' # clear_seen) =>
                /\ media_sessions' = media_sessions
                /\ work_loads' = work_loads
                /\ sessions' = sessions
                /\ media_session' = media_session
                /\ location' = location
                /\ offset' = offset
                /\ current_part' = current_part
                /\ request' = request
                /\ emitted' = emitted
                /\ st_pc' = st_pc]_vars
    /\ [](\A s \in clear_seen :
             /\ Len(emitted[s]) = Len(chunks[s])
             /\ \A k \in 1..Len(emitted[s]) :
                   emitted[s][k] =
                       IF st_args[s].part_count = 1
                       THEN Cut(chunks[s][k], st_args[s].first_part_cut,
                                st_args[s].last_part_cut)
                       ELSE IF k = 1
                       THEN Cut(chunks[s][k], st_args[s].first_part_cut,
                                Len(chunks[s][k]))
                       ELSE IF k = st_args[s].part_count
                       THEN Cut(chunks[s][k], 0, st_args[s].last_part_cut)
                       ELSE chunks[s][k])

\* A clear evicted an entry while the generator was in progress, and the
\* generator has yielded both of its slices since.
C18_Witness ==
    \E s \in clear_seen :
        /\ after_clear[1] = "evicted"
        /\ st_pc[s] = "yield"
        /\ Len(emitted[s]) = 2
        /\ media_sessions[st_args[s].dc_id] = media_session[s]

\* C19: every session stored in client.media_sessions for a data centre
\* other than the client's own has imported an authorization, and so has
\* every such session that generate_media_session returned.
C19_StoredAuthorized ==
    /\ \A d \in DcIds \ {client_dc_id} :
          media_sessions[d] # 0 => sessions[media_sessions[d]].imported
    /\ \A s \in Streams :
          (st_pc[s] = "session" /\ st_args[s].dc_id # client_dc_id) =>
              sessions[media_session[s]].imported

\* The generators that incremented work_loads[i] and have not ended.
Running(i) ==
    {s \in Streams : st_args[s].index = i /\ load[s].inc = 1 /\ ~Ended(s)}

\* C20: work_loads[i] is never negative and never less than the number of
\* generators that incremented it and have not ended; a generator increments
\* it at most once and decrements it at most once, and only after the
\* increment; closing a generator that never ran changes no counter.
C20_LoadNeverUnder ==
    /\ [](\A i \in Indices :
             /\ work_loads[i] >= 0
             /\ work_loads[i] >= Cardinality(Running(i)))
    /\ [](\A s \in Streams :
             /\ load[s].inc \in {0, 1}
             /\ load[s].dec \in {0, 1}
             /\ load[s].dec <= load[s].inc
             /\ load[s].dec = 1 => Ended(s))
    /\ [][\A s \in Streams :
             (st_pc[s] = "created" /\ st_pc'[s] = "closed") =>
                 /\ work_loads' = work_loads
                 /\ load'[s] = [inc |-> 0, dec |-> 0]]_vars

\* Two generators on one client index are in progress and the counter is 2.
C20_Witness ==
    \E s \in Streams : \E t \in Streams \ {s} :
        /\ st_args[s].index = st_args[t].index
        /\ st_pc[s] = "fetch"
        /\ st_pc[t] = "yield"
        /\ work_loads[st_args[s].index] = 2

====
